---- MODULE Spec2Model ----
(***************************************************************************)
(* Model of the search core of pyfhirstore: the result envelope            *)
(* (fhirstore/search/bundle.py), the argument parser                       *)
(* (fhirstore/search/searcharguments.py), the core query builder           *)
(* (fhirstore/search/corequerybuilder.py) and the search orchestrator      *)
(* (FHIRStore.search / FHIRStore.comprehensive_search in                   *)
(* fhirstore/fhirstore.py).                                                *)
(*                                                                         *)
(* Python strings are TLA+ strings; the string operations the code uses    *)
(* (split, startswith, lower, f-strings) are given by their value on the   *)
(* finite alphabet of the model.  A Python dict with optional keys is a    *)
(* record with a set `keys` of the keys that are present.  A raised        *)
(* exception is the name of the exception in the variable `raised`.        *)
(***************************************************************************)
EXTENDS Integers, Sequences, FiniteSets, TLC

VARIABLES
    bundle,       \* Bundle.content of the envelope under construction
    fargs,        \* formatting_args the envelope operations are called with
    raised,       \* exception raised by the last call, "none" if it returned
    op,           \* the last envelope operation and its arguments
    pre,          \* Bundle.content before the last envelope operation
    pc,           \* position of comprehensive_search
    request,      \* its arguments: resource_type and args
    db,           \* the documents of the engine, by index name
    search_args,  \* the parsed SearchArguments, with its reverse_chain
    ids,          \* outer_ids and inner_ids collected so far
    calls,        \* the engine calls issued so far, in order
    included,     \* included_hits and the position of the include loop
    result,       \* the Bundle.content returned, once pc = "done"
    params,       \* a parameter map after pre_process_params
    element,      \* the (key, value) given to build_element_query
    built_query   \* the query returned by the core query builder

envVars == <<bundle, fargs, raised, op, pre>>
searchVars == <<pc, request, db, search_args, ids, calls, included, result>>
builderVars == <<params, element, built_query>>
vars == <<bundle, fargs, raised, op, pre, pc, request, db, search_args, ids, calls,
          included, result, params, element, built_query>>

(***************************************************************************)
(* Bounds                                                                  *)
(***************************************************************************)
MaxHits == 2        \* hits on one page of an engine response
MaxExtra == 1       \* matches the engine reports beyond the page
MaxEntries == 3     \* entries of an envelope in the envelope specification
MaxTotal == 4       \* total of an envelope in the envelope specification

(***************************************************************************)
(* Python values                                                           *)
(***************************************************************************)
None == << >>
Truthy(x) == x # << >>

\* the element of a one-element set: {e(v) : v \in {x}} names an intermediate
\* result v that is computed once
The(S) == CHOOSE x \in S : TRUE

RECURSIVE SeqsUpTo(_, _)
SeqsUpTo(S, n) ==
    IF n = 0 THEN {<< >>}
    ELSE LET shorter == SeqsUpTo(S, n - 1)
         IN  shorter \cup {Append(s, e) : s \in {t \in shorter : Len(t) = n - 1}, e \in S}

(***************************************************************************)
(* Engine responses.  kind "empty" is the dict {}, "search" the response   *)
(* of es.search (hits.hits, hits.total.value), "count" that of es.count.   *)
(***************************************************************************)
EmptyHits == [kind |-> "empty", hits |-> << >>, total |-> 0, count |-> 0]
SearchHits(h, t) == [kind |-> "search", hits |-> h, total |-> t, count |-> 0]
CountHits(n) == [kind |-> "count", hits |-> << >>, total |-> 0, count |-> n]
HitsLen(hits) == IF hits.kind = "empty" THEN 0 ELSE 1

(***************************************************************************)
(* Bundle (fhirstore/search/bundle.py)                                     *)
(***************************************************************************)
NoIssue == [severity |-> "", code |-> "", details |-> ""]

BundleNew ==
    [resource_type |-> "Bundle", keys |-> {"total", "entry"},
     total |-> 0, entry |-> << >>, issue |-> NoIssue]

Has(c, k) == k \in c.keys
Ret(c) == [c |-> c, exc |-> "none"]
Raise(c, e) == [c |-> c, exc |-> e]

SetTag(c) == [c EXCEPT !.keys = @ \cup {"tag"}]
PopEntry(c) == [c EXCEPT !.keys = @ \ {"entry"}, !.entry = << >>]
\* the entries of the hits in reverse order
EntriesReversed(hs, mode) ==
    [i \in 1..Len(hs) |-> [resource |-> hs[Len(hs) - i + 1], mode |-> mode]]

Entries(hs, mode) == [i \in 1..Len(hs) |-> [resource |-> hs[i], mode |-> mode]]

\* the last statement of fill without the test of elements
FillTagFixSummaryOnly(c, fa) ==
    IF fa.summary THEN Ret(SetTag(c)) ELSE Ret(c)

FillTagFix(c, fa) ==
    IF Truthy(fa.elements) \/ fa.summary THEN Ret(SetTag(c)) ELSE Ret(c)

\* fill in count mode that keeps the entry list
FillCountKeepsEntry(c, hits, fa) ==
    LET c1 == SetTag(c)
    IN  IF HitsLen(hits) = 0 THEN FillTagFix(c1, fa)
        ELSE IF ~Has(c1, "total") \/ hits.kind # "count" THEN Raise(c1, "KeyError")
        ELSE FillTagFix([c1 EXCEPT !.total = @ + hits.count], fa)

FillCount(c, hits, fa) ==
    LET c1 == SetTag(c)
        c2 == PopEntry(c1)
    IN  IF ~Has(c1, "entry") THEN Raise(c1, "KeyError")
        ELSE IF HitsLen(hits) = 0 THEN FillTagFix(c2, fa)
        ELSE IF ~Has(c2, "total") \/ hits.kind # "count" THEN Raise(c2, "KeyError")
        ELSE FillTagFix([c2 EXCEPT !.total = @ + hits.count], fa)

\* fill in entry mode that counts the hits of the page
FillEntryModePageTotal(c, hits, fa) ==
    IF hits.kind # "search" THEN Raise(c, "KeyError")
    ELSE IF Len(hits.hits) > 0 /\ ~Has(c, "entry") THEN Raise(c, "KeyError")
    ELSE LET c1 == [c EXCEPT !.entry = @ \o Entries(hits.hits, "match")]
         IN  IF ~Has(c1, "total") THEN Raise(c1, "KeyError")
             ELSE FillTagFix([c1 EXCEPT !.total = @ + Len(hits.hits)], fa)

FillEntryMode(c, hits, fa) ==
    IF hits.kind # "search" THEN Raise(c, "KeyError")
    ELSE IF Len(hits.hits) > 0 /\ ~Has(c, "entry") THEN Raise(c, "KeyError")
    ELSE LET c1 == [c EXCEPT !.entry = @ \o Entries(hits.hits, "match")]
         IN  IF ~Has(c1, "total") THEN Raise(c1, "KeyError")
             ELSE FillTagFix([c1 EXCEPT !.total = @ + hits.total], fa)

BundleFill(c, hits, fa) ==
    IF fa.is_summary_count THEN FillCount(c, hits, fa)
    ELSE IF HitsLen(hits) # 0 THEN FillEntryMode(c, hits, fa)
    ELSE FillTagFix(c, fa)

\* complete that puts the entries of the other envelope first
BundleCompletePrepend(c, other, fa) ==
    IF other.resource_type = "OperationOutcome" THEN Ret(other)
    ELSE IF ~Has(c, "total") \/ ~Has(other, "total") THEN Raise(c, "KeyError")
    ELSE LET c1 == [c EXCEPT !.total = @ + other.total]
         IN  IF fa.is_summary_count THEN Ret(c1)
             ELSE IF ~Has(c1, "entry") \/ ~Has(other, "entry") THEN Raise(c1, "KeyError")
             ELSE Ret([c1 EXCEPT !.entry = other.entry \o @])

BundleComplete(c, other, fa) ==
    IF other.resource_type = "OperationOutcome" THEN Ret(other)
    ELSE IF ~Has(c, "total") \/ ~Has(other, "total") THEN Raise(c, "KeyError")
    ELSE LET c1 == [c EXCEPT !.total = @ + other.total]
         IN  IF fa.is_summary_count THEN Ret(c1)
             ELSE IF ~Has(c1, "entry") \/ ~Has(other, "entry") THEN Raise(c1, "KeyError")
             ELSE Ret([c1 EXCEPT !.entry = @ \o other.entry])

\* append that does not look at formatting_args["include"]
BundleAppendAlways(c, included_hits, fa) ==
    IF included_hits.kind = "search"
    THEN IF Len(included_hits.hits) > 0 /\ ~Has(c, "entry") THEN Raise(c, "KeyError")
         ELSE Ret([c EXCEPT !.entry = @ \o Entries(included_hits.hits, "include")])
    ELSE Ret(c)

BundleAppend(c, included_hits, fa) ==
    IF Truthy(fa.include) /\ included_hits.kind = "search"
    THEN IF Len(included_hits.hits) > 0 /\ ~Has(c, "entry") THEN Raise(c, "KeyError")
         ELSE Ret([c EXCEPT !.entry = @ \o Entries(included_hits.hits, "include")])
    ELSE Ret(c)

BundleFillError(c, severity, code, details) ==
    [resource_type |-> "OperationOutcome",
     keys |-> (c.keys \cup {"issue"}) \ {"total", "entry", "tag"},
     total |-> 0, entry |-> << >>,
     issue |-> [severity |-> severity, code |-> code,
                details |-> IF details # "" THEN details ELSE ""]]

(***************************************************************************)
(* Strings.  The value of str.split, str.lower and of the f-strings of the *)
(* code on the strings of the model.                                       *)
(***************************************************************************)
HasNested == "_has:Observation:subject:_has:AuditEvent:entity:type"
HasObs == "_has:Observation:subject:code"
HasEnc == "_has:Encounter:subject:status"
HasEncPatient == "_has:Encounter:patient:status"

\* s.split(":")
ColonSplit(s) ==
    CASE s = HasObs -> <<"_has", "Observation", "subject", "code">>
      [] s = HasEnc -> <<"_has", "Encounter", "subject", "status">>
      [] s = HasEncPatient -> <<"_has", "Encounter", "patient", "status">>
      [] s = HasNested ->
            <<"_has", "Observation", "subject", "_has", "AuditEvent", "entity", "type">>
      [] s = "Observation:subject" -> <<"Observation", "subject">>
      [] s = "Observation:performer" -> <<"Observation", "performer">>
      [] s = "Observation:subject:Patient" -> <<"Observation", "subject", "Patient">>
      [] s = "Observation:subject:too:long" -> <<"Observation", "subject", "too", "long">>
      [] s = "name:exact" -> <<"name", "exact">>
      [] s = "name:contains" -> <<"name", "contains">>
      [] s = "name:not" -> <<"name", "not">>
      [] s = "name:below" -> <<"name", "below">>
      [] s = "name:above" -> <<"name", "above">>
      [] s = "subject:identifier" -> <<"subject", "identifier">>
      [] OTHER -> <<s>>

\* s.split(",")
CommaSplit(s) ==
    CASE s = "c1,c2" -> <<"c1", "c2">>
      [] s = "Observation:subject,Observation:performer" ->
            <<"Observation:subject", "Observation:performer">>
      [] s = "Duck,Peter" -> <<"Duck", "Peter">>
      [] s = "Paris,PleasantVille" -> <<"Paris", "PleasantVille">>
      [] s = "-_score,code" -> <<"-_score", "code">>
      [] s = "id,name" -> <<"id", "name">>
      [] OTHER -> <<s>>

\* s.split(sep="/", maxsplit=1)
SlashSplit(s) ==
    CASE s = "Patient/p1" -> <<"Patient", "p1">>
      [] s = "Patient/p2" -> <<"Patient", "p2">>
      [] s = "Patient/p3" -> <<"Patient", "p3">>
      [] s = "Location/l1" -> <<"Location", "l1">>
      [] OTHER -> <<s>>

\* f"{s}.reference"
DotReference(s) == s \o ".reference"

\* s.lower()
Lower(s) ==
    CASE s = "Patient" -> "patient"
      [] s = "Observation" -> "observation"
      [] s = "Encounter" -> "encounter"
      [] s = "Location" -> "location"
      [] s = "AuditEvent" -> "auditevent"
      [] OTHER -> s

\* f"fhirstore.{s.lower()}"
IndexName(s) == "fhirstore." \o Lower(s)

StartsWithHas(key) == Len(ColonSplit(key)) > 1 /\ ColonSplit(key)[1] = "_has"
StartsWithMinus(s) == s \in {"-_score", "-code"}
StripFirst(s) == CASE s = "-_score" -> "_score" [] s = "-code" -> "code" [] OTHER -> s

\* int(s)
IntOf(s) == CASE s = "0" -> 0 [] s = "1" -> 1 [] s = "2" -> 2 [] OTHER -> -1

(***************************************************************************)
(* Python dicts that keep insertion order: a sequence of entries.  The     *)
(* value of key "multiple" is the one-key dict {mkey: vals}.               *)
(***************************************************************************)
Item(k, v) == [key |-> k, vals |-> v, mkey |-> ""]
Multi(k, v) == [key |-> "multiple", vals |-> v, mkey |-> k]

DictKeys(d) == {d[i].key : i \in 1..Len(d)}
DictHas(d, k) == k \in DictKeys(d)
DictPos(d, k) == CHOOSE i \in 1..Len(d) : d[i].key = k
DictGet(d, k) == d[DictPos(d, k)].vals
DictPut(d, e) ==
    IF DictHas(d, e.key) THEN [d EXCEPT ![DictPos(d, e.key)] = e] ELSE Append(d, e)
DictPop(d, k) == SelectSeq(d, LAMBDA e : e.key # k)
MultiHas(d, k) == DictHas(d, "multiple") /\ d[DictPos(d, "multiple")].mkey = k

(***************************************************************************)
(* pre_process_params (fhirstore/search/searcharguments.py)                *)
(***************************************************************************)
parse_comma(key, value) ==
    IF Len(CommaSplit(value)) > 1 THEN Multi(key, CommaSplit(value))
    ELSE Item(key, <<value>>)

\* processed_params[parsed_key].append(parsed_value[0]) on a defaultdict(list)
DictAppend(d, k, v) ==
    IF DictHas(d, k) THEN [d EXCEPT ![DictPos(d, k)].vals = Append(@, v)]
    ELSE Append(d, Item(k, <<v>>))

RECURSIVE ProcessElements(_, _, _)
ProcessElements(d0, key, value0) ==
    The({IF value = << >> THEN d
         ELSE The({ProcessElements(
                      IF parsed.key = "multiple" THEN DictPut(d, parsed)
                      ELSE DictAppend(d, parsed.key, parsed.vals[1]),
                      key, Tail(value)) :
                        parsed \in {parse_comma(key, Head(value))}}) :
            d \in {d0}, value \in {value0}})

RECURSIVE ProcessParams(_, _)
ProcessParams(d0, url_dict0) ==
    The({IF url_dict = << >> THEN d
         ELSE ProcessParams(
                IF Len(Head(url_dict).vals) = 1
                THEN DictPut(d, parse_comma(Head(url_dict).key, Head(url_dict).vals[1]))
                ELSE ProcessElements(d, Head(url_dict).key, Head(url_dict).vals),
                Tail(url_dict)) : d \in {d0}, url_dict \in {url_dict0}})

pre_process_params(url_args) == ProcessParams(<< >>, url_args)

(***************************************************************************)
(* ReverseChain (fhirstore/search/searcharguments.py)                      *)
(***************************************************************************)
ReverseChainNew ==
    [is_queried |-> FALSE, resources_type |-> << >>, references |-> << >>,
     fields |-> << >>, value |-> << >>, has_args |-> << >>]

\* chain_elements[i] of the code is ce[i + 1] here
ReverseChainParse(rc, key, value) ==
    LET ce == ColonSplit(key)
        rc1 == [rc EXCEPT !.is_queried = StartsWithHas(key), !.value = value]
    IN  IF ~StartsWithHas(key) THEN Ret(rc1)
        ELSE IF Len(ce) < 4 THEN Raise(rc1, "IndexError")
        ELSE LET rc2 == [rc1 EXCEPT !.resources_type = Append(@, ce[2]),
                                    !.references = Append(@, ce[3])]
             IN  IF ce[4] = "_has"
                 THEN IF Len(ce) < 7 THEN Raise(rc2, "IndexError")
                      ELSE Ret([rc2 EXCEPT !.resources_type = Append(@, ce[5]),
                                           !.references = Append(@, ce[6]),
                                           !.fields = Append(@, ce[7])])
                 ELSE Ret([rc2 EXCEPT !.fields = Append(@, ce[4])])

HasArgs(reference, field, value) ==
    DictPut(<<Item("_elements", <<DotReference(reference)>>)>>, Item(field, value))

ReverseChainFormat(rc) ==
    IF ~rc.is_queried THEN Ret(rc)
    ELSE IF Len(rc.resources_type) = 1
    THEN Ret([rc EXCEPT !.has_args =
                <<HasArgs(rc.references[1], rc.fields[1], rc.value)>>])
    ELSE IF Len(rc.fields) < 2 THEN Raise([rc EXCEPT !.has_args = << >>], "IndexError")
    ELSE Ret([rc EXCEPT !.has_args =
                <<HasArgs(rc.references[2], rc.fields[2], rc.value),
                  HasArgs(rc.references[1], rc.fields[1], << >>)>>])

(***************************************************************************)
(* SearchArguments (fhirstore/search/searcharguments.py)                   *)
(***************************************************************************)
DefaultResultSize == 100

SearchArgumentsNew ==
    [resource_type |-> "", core_args |-> << >>,
     formatting_args |-> [include |-> None, is_summary_count |-> FALSE,
                          summary |-> FALSE, elements |-> None, sort |-> None],
     meta_args |-> [offset |-> 0, result_size |-> DefaultResultSize],
     reverse_chain |-> ReverseChainNew]

SortEntry(argument) ==
    IF StartsWithMinus(argument)
    THEN IF StripFirst(argument) = "_score"
         THEN [field |-> StripFirst(argument), order |-> "asc"]
         ELSE [field |-> StripFirst(argument), order |-> "desc"]
    ELSE [field |-> argument, order |-> "default"]

sort_params(args) ==
    LET has_sort == IF DictHas(args, "_sort") THEN DictGet(args, "_sort")
                    ELSE IF MultiHas(args, "_sort") THEN DictGet(args, "multiple")
                    ELSE None
    IN  IF Truthy(has_sort) THEN [i \in 1..Len(has_sort) |-> SortEntry(has_sort[i])]
        ELSE None

\* re.search(r"(.*):(.*)", elem): the match object, group(2) when it matches
IncludeMatches(elem) == Len(ColonSplit(elem)) > 1
IncludeGroup2(elem) == ColonSplit(elem)[Len(ColonSplit(elem))]

include_params(args) ==
    IF DictHas(args, "_include")
    THEN IF IncludeMatches(DictGet(args, "_include")[1])
         THEN Ret(<<IncludeGroup2(DictGet(args, "_include")[1])>>)
         ELSE Raise(None, "AttributeError")
    ELSE IF MultiHas(args, "_include")
    THEN LET attributes == DictGet(args, "multiple")
         IN  IF \A i \in 1..Len(attributes) : IncludeMatches(attributes[i])
             THEN Ret([i \in 1..Len(attributes) |-> IncludeGroup2(attributes[i])])
             ELSE Raise(None, "AttributeError")
    ELSE Ret(None)

\* one iteration of the loop over list(args); st is [rc, args, exc]
HasStep(st, key) ==
    The({IF parsed.exc # "none"
         THEN [rc |-> parsed.c, args |-> st.args, exc |-> parsed.exc]
         ELSE The({[rc |-> formatted.c, args |-> DictPop(st.args, key),
                    exc |-> formatted.exc] :
                        formatted \in {ReverseChainFormat(parsed.c)}}) :
            parsed \in {ReverseChainParse(st.rc, key, DictGet(st.args, key))}})

RECURSIVE HasLoop(_, _)
HasLoop(st0, keys0) ==
    The({IF keys = << >> \/ st.exc # "none" THEN st
         ELSE IF ~StartsWithHas(Head(keys)) THEN HasLoop(st, Tail(keys))
         ELSE HasLoop(HasStep(st, Head(keys)), Tail(keys)) :
            st \in {st0}, keys \in {keys0}})

has_reverse_chain(args) ==
    HasLoop([rc |-> ReverseChainNew, args |-> args, exc |-> "none"],
            [i \in 1..Len(args) |-> args[i].key])

clean_params(args) ==
    LET a1 == IF DictHas(args, "multiple")
                 /\ args[DictPos(args, "multiple")].mkey
                        \in {"_elements", "_sort", "_include", "_type"}
              THEN DictPop(args, "multiple") ELSE args
    IN  SelectSeq(a1, LAMBDA e :
            e.key \notin {"_summary", "_elements", "_sort", "_include", "_count"})

\* parse after self.has_reverse_chain(args): chain is [rc, args, exc]
ParseDirectives(chain, sort, resource_type) ==
    LET args == chain.args
        include == include_params(args)
        has_result_size == IF DictHas(args, "_count") THEN DictGet(args, "_count") ELSE None
        has_summary == DictHas(args, "_summary")
        elements ==
            IF has_summary /\ DictGet(args, "_summary")[1] = "text"
            THEN <<"text", "id", "meta">>
            ELSE IF DictHas(args, "_elements") THEN DictGet(args, "_elements")
            ELSE IF MultiHas(args, "_elements") THEN DictGet(args, "multiple")
            ELSE None
        sa == [resource_type |-> resource_type,
               core_args |-> clean_params(args),
               formatting_args |->
                   [include |-> include.c,
                    is_summary_count |->
                        has_summary /\ DictGet(args, "_summary")[1] = "count",
                    summary |-> has_summary /\ DictGet(args, "_summary") # <<"false">>,
                    elements |-> elements,
                    sort |-> sort],
               meta_args |->
                   [offset |-> 0,
                    result_size |-> IF Truthy(has_result_size)
                                    THEN IntOf(has_result_size[1])
                                    ELSE DefaultResultSize],
               reverse_chain |-> chain.rc]
    IN  IF chain.exc # "none" THEN Raise(SearchArgumentsNew, chain.exc)
        ELSE IF include.exc # "none" THEN Raise(SearchArgumentsNew, include.exc)
        ELSE IF Truthy(has_result_size) /\ IntOf(has_result_size[1]) < 0
        THEN Raise(SearchArgumentsNew, "ValueError")
        ELSE Ret(sa)

SearchArgumentsParse(url_args, resource_type) ==
    The({The({ParseDirectives(chain, sort_params(args), resource_type) :
                chain \in {has_reverse_chain(args)}}) :
            args \in {pre_process_params(url_args)}})

(***************************************************************************)
(* Core query builder (fhirstore/search/corequerybuilder.py).  A query is  *)
(* a record tagged with the key the code populates; an f-string is the     *)
(* sequence of its pieces.                                                 *)
(***************************************************************************)
Quoted(v) == <<"\"", v, "\"">>
Negated(v) == <<"-", v>>
Starred(v) == <<"*", v, "*">>
Below(v) == <<"(", v, ")*">>
Raw(v) == <<v>>

SimpleQueryString(query, fields, flags) ==
    [kind |-> "simple_query_string", query |-> query, fields |-> fields, flags |-> flags]
QueryString(query, fields) ==
    [kind |-> "query_string", query |-> query, fields |-> fields]
EmptyQuery == [kind |-> "empty"]
\* an exception raised while the query is built
RaisedQuery(exc) == [kind |-> "raise", exc |-> exc]
\* the query, or the first exception raised while its content was built
Built(content, query) ==
    IF \E i \in 1..Len(content) : content[i].kind = "raise"
    THEN content[CHOOSE i \in 1..Len(content) :
                    /\ content[i].kind = "raise"
                    /\ \A j \in 1..(i - 1) : content[j].kind # "raise"]
    ELSE query
MatchAll == [kind |-> "match_all"]
BoolMust(content) == [kind |-> "bool", occur |-> "must", content |-> content]
BoolShould(content) == [kind |-> "bool", occur |-> "should", content |-> content]

Modifiers ==
    {"contains", "exact", "above", "below", "not", "in", "not-in", "of-type", "identifier"}

\* re.search(r"^(.*):(modifier)$", key): group(1) and group(2)
HasModifier(key) ==
    Len(ColonSplit(key)) = 2 /\ ColonSplit(key)[2] \in Modifiers

ModifierQuery(string_field, string_modifier, value) ==
    CASE string_modifier = "contains" -> QueryString(Starred(value), <<string_field>>)
      [] string_modifier \in {"exact", "in"} ->
            SimpleQueryString(Quoted(value), <<string_field>>, "PHRASE")
      [] string_modifier \in {"not", "not-in"} ->
            SimpleQueryString(Negated(value), <<string_field>>, "")
      [] string_modifier = "below" ->
            SimpleQueryString(Below(value), <<string_field>>, "")
      [] string_modifier = "identifier" ->
            SimpleQueryString(Quoted(value), <<string_field \o ".identifier.value">>, "PHRASE")
      [] OTHER -> EmptyQuery

\* number_prefix_matching
NumberPrefixes == {"gt", "ge", "lt", "le"}
number_prefix_matching(prefix) ==
    CASE prefix = "gt" -> "gt" [] prefix = "ge" -> "gte"
      [] prefix = "lt" -> "lt" [] prefix = "le" -> "lte"

\* the regular expression of is_numeric_type on the strings of the model:
\* integer, decimal, date and dateTime literals
is_numeric_type(argument) == argument \in {"0", "5", "2.5", "1974-12-25"}

\* re.search(r"^(ne|eq|gt|lt|ge|le)(.*)$", value): group(1) and group(2),
\* << >> when the value does not match
NumPrefix(value) ==
    CASE value = "gt5" -> <<"gt", "5">>
      [] value = "ge5" -> <<"ge", "5">>
      [] value = "lt5" -> <<"lt", "5">>
      [] value = "le1974-12-25" -> <<"le", "1974-12-25">>
      [] value = "eq2.5" -> <<"eq", "2.5">>
      [] value = "ne5" -> <<"ne", "5">>
      [] value = "eqpatient" -> <<"eq", "patient">>
      [] value = "letter" -> <<"le", "tter">>
      [] value = "gt" -> <<"gt", "">>
      [] OTHER -> << >>

\* check_prefix without the test of the remainder against the grammar
CheckPrefixNoGrammar(value) ==
    IF NumPrefix(value) # << >>
    THEN [prefix |-> NumPrefix(value)[1], argument |-> NumPrefix(value)[2]]
    ELSE [prefix |-> "", argument |-> value]

\* the prefix None is the empty string
check_prefix(value) ==
    IF NumPrefix(value) # << >> /\ is_numeric_type(NumPrefix(value)[2])
    THEN [prefix |-> NumPrefix(value)[1], argument |-> NumPrefix(value)[2]]
    ELSE [prefix |-> "", argument |-> value]

\* re.split(r"\|", value)
PipeSplit(value) ==
    CASE value = "urn:oid:1.2.3|654321" -> <<"urn:oid:1.2.3", "654321">>
      [] value = "s1|c1" -> <<"s1", "c1">>
      [] value = "|c1" -> <<"", "c1">>
      [] value = "s1|c1|c2" -> <<"s1", "c1", "c2">>
      [] OTHER -> <<value>>

RangeLeaf(key, operator, value) ==
    [kind |-> "range", field |-> key, operator |-> operator, value |-> value]
MatchLeaf(key, value) == [kind |-> "match", field |-> key, value |-> value]

PrefixQuery(key, prefix, value) ==
    IF prefix \in NumberPrefixes THEN RangeLeaf(key, number_prefix_matching(prefix), value)
    ELSE IF prefix = "eq" THEN MatchLeaf(key, value)
    ELSE IF prefix = "ne" THEN SimpleQueryString(Negated(value), <<key>>, "")
    ELSE EmptyQuery

\* the pipe branch with the code looked up in <key>.code only
PipeQueryCodeOnly(key, system, code) ==
    BoolMust(<<SimpleQueryString(Quoted(system), <<key \o ".system">>, "PHRASE"),
               SimpleQueryString(Quoted(code), <<key \o ".code">>, "PHRASE")>>)

PipeQuery(key, system, code) ==
    BoolMust(<<SimpleQueryString(Quoted(system), <<key \o ".system">>, "PHRASE"),
               SimpleQueryString(Quoted(code), <<key \o ".code", key \o ".value">>,
                                 "PHRASE")>>)

\* the branch of a value that is a str
StringQuery(key, prefix, value) ==
    IF key \in {"_text", "_content"} THEN SimpleQueryString(Raw(value), << >>, "")
    ELSE IF HasModifier(key)
    THEN ModifierQuery(ColonSplit(key)[1], ColonSplit(key)[2], value)
    ELSE IF prefix # "" THEN PrefixQuery(key, prefix, value)
    ELSE IF Len(PipeSplit(value)) > 2 THEN RaisedQuery("ValueError")
    ELSE IF Len(PipeSplit(value)) > 1
    THEN PipeQuery(key, PipeSplit(value)[1], PipeSplit(value)[2])
    ELSE SimpleQueryString(Quoted(value), <<key>>, "PHRASE")

\* value is a str; an int or a float is given to NumberQuery
build_element_query(key, value) ==
    StringQuery(key, check_prefix(value).prefix, check_prefix(value).argument)

\* isinstance(value, int) or isinstance(value, float)
NumberQuery(key, value) == MatchLeaf(key, value)

ElementQueries(key, values) ==
    [i \in 1..Len(values) |-> build_element_query(key, values[i])]

\* build_simple_query with the "multiple" bucket compiled like a repeated key
BuildSimpleQueryMustOnly(dict_args) ==
    LET e == dict_args[1]
    IN  IF e.key = "multiple"
        THEN Built(ElementQueries(e.mkey, e.vals), BoolMust(ElementQueries(e.mkey, e.vals)))
        ELSE IF Len(e.vals) = 1 THEN build_element_query(e.key, e.vals[1])
        ELSE Built(ElementQueries(e.key, e.vals), BoolMust(ElementQueries(e.key, e.vals)))

\* dict_args is a dict of one key
build_simple_query(dict_args) ==
    LET e == dict_args[1]
    IN  IF e.key = "multiple"
        THEN Built(ElementQueries(e.mkey, e.vals), BoolShould(ElementQueries(e.mkey, e.vals)))
        ELSE IF Len(e.vals) = 1 THEN build_element_query(e.key, e.vals[1])
        ELSE Built(ElementQueries(e.key, e.vals), BoolMust(ElementQueries(e.key, e.vals)))

build_core_query(core_args) ==
    IF core_args = << >> THEN MatchAll
    ELSE IF Len(core_args) = 1 THEN build_simple_query(core_args)
    ELSE The({Built(inter_query, BoolMust(inter_query)) :
                inter_query \in {[i \in 1..Len(core_args) |->
                                    build_simple_query(<<core_args[i]>>)]}})

(***************************************************************************)
(* The search engine behind self.es: one index per resource type, holding  *)
(* documents in index order.                                               *)
(***************************************************************************)
RefFields == {"subject", "patient", "performer", "entity"}

\* a phrase on a field matches the field's value, or the id a reference
\* field points to
FieldIs(doc, field, v) ==
    /\ field \in DOMAIN doc
    /\ IF field \in RefFields
       THEN v \in {doc[field].reference, SlashSplit(doc[field].reference)[2]}
       ELSE doc[field] = v

LeafMatches(doc, q) ==
    CASE q.kind = "match_all" -> TRUE
      [] q.kind = "simple_query_string" /\ q.query[1] = "\"" ->
            \E i \in 1..Len(q.fields) : FieldIs(doc, q.fields[i], q.query[2])
      [] q.kind = "simple_query_string" /\ q.query[1] = "-" ->
            \A i \in 1..Len(q.fields) : ~FieldIs(doc, q.fields[i], q.query[2])
      [] q.kind = "simple_query_string" /\ Len(q.query) = 1 ->
            \E i \in 1..Len(q.fields) : FieldIs(doc, q.fields[i], q.query[1])
      [] OTHER -> FALSE

RECURSIVE Matches(_, _)
Matches(doc, q) ==
    IF q.kind = "bool"
    THEN IF q.occur = "must"
         THEN \A i \in 1..Len(q.content) : Matches(doc, q.content[i])
         ELSE \E i \in 1..Len(q.content) : Matches(doc, q.content[i])
    ELSE LeafMatches(doc, q)

\* the _source filter of a search body
Project(doc, source) ==
    IF ~Truthy(source) THEN doc
    ELSE LET wanted == {source[i] : i \in 1..Len(source)}
             kept == {f \in DOMAIN doc :
                         f \in wanted \/ (f \in RefFields /\ DotReference(f) \in wanted)}
         IN  [f \in kept |-> doc[f]]

EngineDefaultSize == 10
Min(a, b) == IF a < b THEN a ELSE b

EsSearch(dbv, index, body) ==
    IF index \notin DOMAIN dbv THEN Raise(EmptyHits, "ESNotFoundError")
    ELSE The({Ret(SearchHits(
                    [i \in 1..Min(Len(matched) - body.from, body.size) |->
                        Project(matched[body.from + i], body.source)],
                    Len(matched))) :
                matched \in {SelectSeq(dbv[index], LAMBDA d : Matches(d, body.query))}})

EsCount(dbv, index, body) ==
    IF index \notin DOMAIN dbv THEN Raise(EmptyHits, "ESNotFoundError")
    ELSE Ret(CountHits(Len(SelectSeq(dbv[index], LAMBDA d : Matches(d, body.query)))))

(***************************************************************************)
(* FHIRStore.search (fhirstore/fhirstore.py)                               *)
(***************************************************************************)
\* the keys of self.resources
Supported == {"Patient", "Observation", "Encounter", "Location"}

validate_resource_type(resource_type) ==
    IF resource_type \notin Supported THEN "NotFoundError" ELSE "none"

Call(api, index, query, from, size, source, sort) ==
    [api |-> api, index |-> index, query |-> query, from |-> from, size |-> size,
     source |-> source, sort |-> sort]

\* the result is the bundle, the exception and the engine calls issued
SearchResult(c, exc, issued) == [c |-> c, exc |-> exc, calls |-> issued]

CountCall(sa) ==
    Call("count", IndexName(sa.resource_type), build_core_query(sa.core_args),
         0, 0, None, None)

\* the search call without the paging of the request
SearchCallUnpaged(sa) ==
    Call("search", IndexName(sa.resource_type), build_core_query(sa.core_args),
         0, EngineDefaultSize, sa.formatting_args.elements, sa.formatting_args.sort)

SearchCall(sa) ==
    Call("search", IndexName(sa.resource_type), build_core_query(sa.core_args),
         sa.meta_args.offset, sa.meta_args.result_size,
         sa.formatting_args.elements, sa.formatting_args.sort)

\* the engine call of search and the fill of its response
Execute(dbv, call, fa) ==
    The({IF hits.exc # "none" THEN SearchResult(BundleNew, hits.exc, <<call>>)
         ELSE The({SearchResult(filled.c, filled.exc, <<call>>) :
                    filled \in {BundleFill(BundleNew, hits.c, fa)}}) :
            hits \in {IF call.api = "count" THEN EsCount(dbv, call.index, call)
                      ELSE EsSearch(dbv, call.index, call)}})

Search(dbv, sa) ==
    IF validate_resource_type(sa.resource_type) # "none"
    THEN SearchResult(BundleNew, validate_resource_type(sa.resource_type), << >>)
    ELSE The({IF call.query.kind = "raise"
              THEN SearchResult(BundleNew, call.query.exc, << >>)
              ELSE Execute(dbv, call, sa.formatting_args) :
                call \in {IF sa.formatting_args.is_summary_count
                          THEN CountCall(sa) ELSE SearchCall(sa)}})

(***************************************************************************)
(* FHIRStore.comprehensive_search (fhirstore/fhirstore.py)                 *)
(***************************************************************************)
\* item["resource"][reference]["reference"].split(sep="/", maxsplit=1)[1]
\* for every item of the entries
CollectIds(entry, reference) ==
    IF \E i \in 1..Len(entry) : reference \notin DOMAIN entry[i].resource
    THEN Raise(<< >>, "KeyError")
    ELSE IF \E i \in 1..Len(entry) :
                Len(SlashSplit(entry[i].resource[reference].reference)) < 2
    THEN Raise(<< >>, "IndexError")
    ELSE Ret([i \in 1..Len(entry) |->
                SlashSplit(entry[i].resource[reference].reference)[2]])

\* the ids collected from the bundle of one hop
ChainedIds(chained_bundle, reference) ==
    IF chained_bundle.exc # "none"
    THEN [ids |-> << >>, exc |-> chained_bundle.exc, calls |-> chained_bundle.calls]
    ELSE The({[ids |-> collected.c, exc |-> collected.exc,
               calls |-> chained_bundle.calls] :
                collected \in {CollectIds(chained_bundle.c.entry, reference)}})

\* parse the arguments of one hop, search the store and collect the ids
ChainedSearch(dbv, has_args, resource_type, reference) ==
    The({IF rev_args.exc # "none"
         THEN [ids |-> << >>, exc |-> rev_args.exc, calls |-> << >>]
         ELSE The({ChainedIds(chained_bundle, reference) :
                    chained_bundle \in {Search(dbv, rev_args.c)}}) :
            rev_args \in {SearchArgumentsParse(has_args, resource_type)}})

NoMatchDetails(resource_type) == "No " \o resource_type \o " matching search criteria"

IncludedNew == [hits |-> EmptyHits, i |-> 1, j |-> 1]

Parse ==
    /\ pc = "start"
    /\ \E parsed \in {SearchArgumentsParse(request.args, request.resource_type)} :
       LET rev_chain == parsed.c.reverse_chain
       IN  /\ search_args' = parsed.c
           /\ raised' = parsed.exc
           /\ pc' = IF parsed.exc # "none" THEN "raised"
                    ELSE IF rev_chain.is_queried /\ Len(rev_chain.has_args) = 2 THEN "outer"
                    ELSE IF rev_chain.is_queried THEN "inner"
                    ELSE "primary"
    /\ UNCHANGED <<bundle, fargs, op, pre, request, db, ids, calls, included, result>>
    /\ UNCHANGED builderVars

RevOuter ==
    /\ pc = "outer"
    /\ \E rev_chain \in {search_args.reverse_chain} :
       \E outer \in {ChainedSearch(db, rev_chain.has_args[2],
                                   rev_chain.resources_type[2],
                                   rev_chain.references[2])} :
           /\ calls' = calls \o outer.calls
           /\ raised' = outer.exc
           /\ ids' = [ids EXCEPT !.outer = outer.ids]
           /\ search_args' =
                 IF outer.exc # "none" THEN search_args
                 ELSE [search_args EXCEPT !.reverse_chain.has_args[1] =
                          DictPut(@, Item(rev_chain.fields[1], outer.ids))]
           /\ pc' = IF outer.exc # "none" THEN "raised" ELSE "inner"
    /\ UNCHANGED <<bundle, fargs, op, pre, request, db, included, result>>
    /\ UNCHANGED builderVars

RevInner ==
    /\ pc = "inner"
    /\ \E rev_chain \in {search_args.reverse_chain} :
       \E has_args0 \in {IF Len(rev_chain.has_args) = 1
                          THEN DictPut(rev_chain.has_args[1],
                                       Item(rev_chain.fields[1], rev_chain.value))
                          ELSE rev_chain.has_args[1]} :
       \E inner \in {ChainedSearch(db, has_args0, rev_chain.resources_type[1],
                                   rev_chain.references[1])} :
       LET no_match == BundleFillError(BundleNew, "warning", "not-found",
                                       NoMatchDetails(rev_chain.resources_type[1]))
       IN  /\ calls' = calls \o inner.calls
           /\ raised' = inner.exc
           /\ ids' = [ids EXCEPT !.inner = inner.ids]
           /\ IF inner.exc # "none"
              THEN /\ pc' = "raised"
                   /\ UNCHANGED <<search_args, bundle, result>>
              ELSE /\ search_args' =
                        [search_args EXCEPT
                            !.reverse_chain.has_args[1] = has_args0,
                            !.core_args = DictPut(@, Item("id", inner.ids))]
                   /\ IF inner.ids = << >>
                      THEN /\ bundle' = no_match
                           /\ result' = no_match
                           /\ pc' = "done"
                      ELSE /\ pc' = "primary"
                           /\ UNCHANGED <<bundle, result>>
    /\ UNCHANGED <<fargs, op, pre, request, db, included>>
    /\ UNCHANGED builderVars

Primary ==
    /\ pc = "primary"
    /\ \E found \in {Search(db, search_args)} :
       LET fa == search_args.formatting_args
       IN  /\ calls' = calls \o found.calls
           /\ raised' = found.exc
           /\ IF found.exc # "none"
              THEN /\ pc' = "raised"
                   /\ UNCHANGED <<bundle, result>>
              ELSE /\ bundle' = found.c
                   /\ IF Truthy(fa.include) /\ ~fa.is_summary_count
                      THEN pc' = "include" /\ UNCHANGED result
                      ELSE pc' = "done" /\ result' = found.c
    /\ included' = IncludedNew
    /\ UNCHANGED <<fargs, op, pre, request, db, search_args, ids>>
    /\ UNCHANGED builderVars

IncludeCall(reference) ==
    Call("search", IndexName(SlashSplit(reference)[1]),
         SimpleQueryString(Raw(SlashSplit(reference)[2]), <<"id">>, ""),
         0, EngineDefaultSize, None, None)

\* one iteration of the loops over the entries and the include attributes
IncludeLookup ==
    /\ pc = "include"
    /\ included.i <= Len(bundle.entry)
    /\ LET item == bundle.entry[included.i]
           include == search_args.formatting_args.include
           attribute == include[included.j]
           skipped == item.mode = "include"
           missing == attribute \notin DOMAIN item.resource
           call == IncludeCall(item.resource[attribute].reference)
           hits == EsSearch(db, call.index, call)
           next == IF skipped \/ included.j >= Len(include)
                   THEN [i |-> included.i + 1, j |-> 1]
                   ELSE [i |-> included.i, j |-> included.j + 1]
       IN  /\ calls' = IF skipped \/ missing THEN calls ELSE Append(calls, call)
           /\ included' =
                 [hits |-> IF skipped \/ missing \/ hits.exc # "none"
                           THEN included.hits ELSE hits.c,
                  i |-> next.i, j |-> next.j]
    /\ UNCHANGED <<bundle, fargs, raised, op, pre, pc, request, db, search_args, ids, result>>
    /\ UNCHANGED builderVars

IncludeAppend ==
    /\ pc = "include"
    /\ included.i > Len(bundle.entry)
    /\ \E appended \in {BundleAppend(bundle, included.hits,
                                      search_args.formatting_args)} :
           /\ bundle' = appended.c
           /\ raised' = appended.exc
           /\ result' = appended.c
           /\ pc' = IF appended.exc # "none" THEN "raised" ELSE "done"
    /\ UNCHANGED <<fargs, op, pre, request, db, search_args, ids, calls, included>>
    /\ UNCHANGED builderVars

(***************************************************************************)
(* The documents of the engine and the requests of the model               *)
(***************************************************************************)
MaxObs == 2         \* Observation documents in the engine
MaxEnc == 1         \* Encounter documents in the engine

Reference(r) == [reference |-> r]
WithId(doc, id) == [f \in DOMAIN doc \cup {"id"} |-> IF f = "id" THEN id ELSE doc[f]]
DocId(prefix, i) == prefix \o ToString(i)

Patients == <<[id |-> "p1"], [id |-> "p2"], [id |-> "p3"]>>

ObservationBodies ==
    {[code |-> c, status |-> "s1", subject |-> Reference(r)] :
        c \in {"c1", "c2"}, r \in {"Patient/p1", "Patient/p2", "Location/l1"}}
    \cup {[code |-> "c1", status |-> "s1"]}

EncounterBodies ==
    {[status |-> "s1", subject |-> Reference(r)] : r \in {"Patient/p1", "Patient/p3"}}

Numbered(bodies, prefix) == [i \in 1..Len(bodies) |-> WithId(bodies[i], DocId(prefix, i))]

Databases ==
    {[i \in {"fhirstore.patient", "fhirstore.observation", "fhirstore.encounter"} |->
        CASE i = "fhirstore.patient" -> Patients
          [] i = "fhirstore.observation" -> Numbered(obs, "o")
          [] OTHER -> Numbered(enc, "e")] :
        obs \in SeqsUpTo(ObservationBodies, MaxObs),
        enc \in SeqsUpTo(EncounterBodies, MaxEnc)}

Request(resource_type, args) == [resource_type |-> resource_type, args |-> args]

Requests ==
    {Request("Patient", << >>),
     Request("Patient", <<Item("_summary", <<"count">>)>>),
     Request("Patient", <<Item(HasObs, <<"c1">>)>>),
     Request("Patient", <<Item(HasNested, <<"s1">>)>>),
     Request("Patient", <<Item(HasObs, <<"c1">>), Item(HasEnc, <<"s1">>)>>),
     Request("Patient", <<Item(HasEnc, <<"s1">>), Item(HasObs, <<"c1">>)>>),
     Request("Patient", <<Item(HasObs, <<"c1">>), Item(HasEncPatient, <<"s1">>)>>),
     Request("Observation", <<Item("_include", <<"Observation:subject">>)>>),
     Request("Observation", <<Item("code", <<"c1">>),
                              Item("_include", <<"Observation:subject">>)>>),
     Request("Observation", <<Item("_include", <<"Observation:subject">>),
                              Item("_summary", <<"count">>)>>),
     Request("Observation", <<Item("_include", <<"subject">>)>>),
     Request("Observation",
             <<Item("_include", <<"Observation:subject,Observation:performer">>)>>),
     Request("Patient", <<Item("_count", <<"0">>)>>),
     Request("Patient", <<Item("_count", <<"2">>)>>),
     Request("unknown", << >>),
     Request("unknown", <<Item(HasObs, <<"c1">>)>>)}

\* a (key, value) pair; number says that value is a Python int or float
Element(key, value, number) == [key |-> key, value |-> value, number |-> number]

BuilderIdle ==
    /\ params = << >>
    /\ element = Element("", "", FALSE)
    /\ built_query = EmptyQuery

EnvIdle ==
    /\ BuilderIdle
    /\ pc = "idle"
    /\ request = Request("Patient", << >>)
    /\ db = [i \in {"fhirstore.patient"} |-> Patients]
    /\ search_args = SearchArgumentsNew
    /\ ids = [outer |-> << >>, inner |-> << >>]
    /\ calls = << >>
    /\ included = IncludedNew
    /\ result = BundleNew

(***************************************************************************)
(* Envelope specification: the operations of one Bundle called in any      *)
(* order with one set of formatting arguments.                             *)
(***************************************************************************)
EnvDocs == {[id |-> "r1"], [id |-> "r2"]}

EnvHits ==
    {EmptyHits}
    \cup {SearchHits(h, Len(h) + x) : h \in SeqsUpTo(EnvDocs, MaxHits), x \in 0..MaxExtra}
    \cup {CountHits(n) : n \in 0..MaxHits}

EnvFormatting ==
    [include : {None, <<"subject">>}, is_summary_count : BOOLEAN,
     summary : BOOLEAN, elements : {None, <<"id">>}, sort : {None}]

EnvOthers(fa) ==
    {BundleFill(BundleNew, h, fa).c :
        h \in {e \in EnvHits : BundleFill(BundleNew, e, fa).exc = "none"}}
    \cup {BundleFillError(BundleNew, "warning", "not-found", "no match")}

NoOp == [name |-> "new", hits |-> EmptyHits, other |-> BundleNew]

InBounds(c) == Len(c.entry) <= MaxEntries /\ c.total <= MaxTotal

EnvInit ==
    /\ bundle = BundleNew
    /\ fargs \in {fa \in EnvFormatting : fa.summary \/ ~fa.is_summary_count}
    /\ raised = "none"
    /\ op = NoOp
    /\ pre = BundleNew
    /\ EnvIdle

EnvStep(name, hits, other, r) ==
    /\ InBounds(r.c)
    /\ bundle' = r.c
    /\ raised' = r.exc
    /\ op' = [name |-> name, hits |-> hits, other |-> other]
    /\ pre' = bundle
    /\ UNCHANGED fargs
    /\ UNCHANGED searchVars
    /\ UNCHANGED builderVars

Fill == \E hits \in EnvHits :
    EnvStep("fill", hits, BundleNew, BundleFill(bundle, hits, fargs))

Complete == \E other \in EnvOthers(fargs) :
    EnvStep("complete", EmptyHits, other, BundleComplete(bundle, other, fargs))

AppendIncluded == \E hits \in EnvHits :
    EnvStep("append", hits, BundleNew, BundleAppend(bundle, hits, fargs))

FillError ==
    EnvStep("fill_error", EmptyHits, BundleNew,
            Ret(BundleFillError(bundle, "error", "invalid", "")))

EnvNext == Fill \/ Complete \/ AppendIncluded \/ FillError

EnvSpec == EnvInit /\ [][EnvNext]_vars

(***************************************************************************)
(* Parser specification: pre_process_params and SearchArguments.parse      *)
(* called on any parameter map of at most MaxParams keys.                  *)
(***************************************************************************)
MaxParams == 2      \* keys of a parameter map

\* the (key, values) pairs a parameter map is made of
ParseParams ==
    {Item("given", <<"Duck">>), Item("given", <<"Duck,Peter">>),
     Item("given", <<"Duck", "Peter">>),
     Item("address-city", <<"Paris,PleasantVille">>),
     Item("_sort", <<"code">>), Item("_sort", <<"-code">>),
     Item("_sort", <<"-_score">>), Item("_sort", <<"-_score,code">>),
     Item("_include", <<"Observation:subject">>),
     Item("_include", <<"Observation:subject:Patient">>),
     Item("_include", <<"Observation:subject,Observation:performer">>),
     Item("_include", <<"Observation:subject", "Observation:performer">>),
     Item("_include", <<"subject">>),
     Item("_include", <<"Observation:subject:too:long">>),
     Item("_revinclude", <<"Observation:subject">>),
     Item("_count", <<"2">>),
     Item("_summary", <<"count">>), Item("_summary", <<"text">>),
     Item("_summary", <<"false">>), Item("_summary", <<"true">>),
     Item("_elements", <<"id">>), Item("_elements", <<"id,name">>),
     Item(HasObs, <<"c1">>), Item(HasEnc, <<"s1">>), Item(HasNested, <<"s1">>)}

\* a dict has one value per key
DistinctKeys(d) == \A i, j \in 1..Len(d) : d[i].key = d[j].key => i = j

ParseMaps == {d \in SeqsUpTo(ParseParams, MaxParams) : DistinctKeys(d)}

ParseInit ==
    /\ pc = "args"
    /\ request \in {Request("Observation", d) : d \in ParseMaps}
    /\ db = [i \in {"fhirstore.patient"} |-> Patients]
    /\ search_args = SearchArgumentsNew
    /\ ids = [outer |-> << >>, inner |-> << >>]
    /\ calls = << >>
    /\ included = IncludedNew
    /\ result = BundleNew
    /\ bundle = BundleNew
    /\ fargs = SearchArgumentsNew.formatting_args
    /\ raised = "none"
    /\ op = NoOp
    /\ pre = BundleNew
    /\ BuilderIdle

PreProcess ==
    /\ pc = "args"
    /\ pc' = "processed"
    /\ params' = pre_process_params(request.args)
    /\ UNCHANGED <<bundle, fargs, raised, op, pre, request, db, search_args, ids, calls,
                   included, result, element, built_query>>

ParseArgs ==
    /\ pc = "processed"
    /\ pc' = "parsed"
    /\ \E parsed \in {SearchArgumentsParse(request.args, request.resource_type)} :
           /\ search_args' = parsed.c
           /\ raised' = parsed.exc
    /\ UNCHANGED <<bundle, fargs, op, pre, request, db, ids, calls, included, result,
                   params, element, built_query>>

ParseNext == PreProcess \/ ParseArgs

ParseSpec == ParseInit /\ [][ParseNext]_vars

(***************************************************************************)
(* Builder specification: build_element_query called on any (key, value)   *)
(* and build_core_query on any core-args map of at most MaxCoreKeys keys.  *)
(***************************************************************************)
MaxCoreKeys == 2    \* keys of a core-args map
MaxNumber == 1      \* the int values given to build_element_query

BuilderKeys ==
    {"name", "identifier", "birthDate", "name:exact", "name:contains", "name:not",
     "name:below", "name:above", "subject:identifier", "_text", "_content"}

BuilderValues ==
    {"Duck", "5", "gt5", "ge5", "lt5", "le1974-12-25", "eq2.5", "ne5",
     "eqpatient", "letter", "gt", "urn:oid:1.2.3|654321", "s1|c1", "|c1", "s1|c1|c2"}

StringElements == {Element(k, v, FALSE) : k \in BuilderKeys, v \in BuilderValues}
NumberElements == {Element(k, n, TRUE) : k \in BuilderKeys, n \in 0..MaxNumber}

\* the (key, values) pairs a core-args map is made of
CoreParams ==
    {Item("name", <<"Duck">>), Item("name", <<"Duck", "Peter">>),
     Item("birthDate", <<"ge5", "lt5">>), Item("birthDate", <<"le1974-12-25">>),
     Item("name:exact", <<"Duck">>), Item("identifier", <<"s1|c1">>),
     Item("_text", <<"Duck">>),
     Multi("given", <<"Duck", "Peter">>), Multi("birthDate", <<"gt5", "eqpatient">>)}

CoreMaps == {d \in SeqsUpTo(CoreParams, MaxCoreKeys) : DistinctKeys(d)}

BuilderInit ==
    /\ pc = "build"
    /\ params \in CoreMaps
    /\ element \in StringElements \/ element \in NumberElements
    /\ built_query = EmptyQuery
    /\ request = Request("Patient", << >>)
    /\ db = [i \in {"fhirstore.patient"} |-> Patients]
    /\ search_args = SearchArgumentsNew
    /\ ids = [outer |-> << >>, inner |-> << >>]
    /\ calls = << >>
    /\ included = IncludedNew
    /\ result = BundleNew
    /\ bundle = BundleNew
    /\ fargs = SearchArgumentsNew.formatting_args
    /\ raised = "none"
    /\ op = NoOp
    /\ pre = BundleNew

BuildElement ==
    /\ pc = "build"
    /\ pc' = "element"
    /\ \E element_query \in {IF element.number
                              THEN NumberQuery(element.key, element.value)
                              ELSE build_element_query(element.key, element.value)} :
           IF element_query.kind = "raise"
           THEN raised' = element_query.exc /\ UNCHANGED built_query
           ELSE raised' = "none" /\ built_query' = element_query
    /\ UNCHANGED <<bundle, fargs, op, pre, request, db, search_args, ids, calls,
                   included, result, params, element>>

BuildCore ==
    /\ pc = "build"
    /\ pc' = "core"
    /\ \E query \in {build_core_query(params)} :
           IF query.kind = "raise"
           THEN raised' = query.exc /\ UNCHANGED built_query
           ELSE raised' = "none" /\ built_query' = query
    /\ UNCHANGED <<bundle, fargs, op, pre, request, db, search_args, ids, calls,
                   included, result, params, element>>

BuilderNext == BuildElement \/ BuildCore

BuilderSpec == BuilderInit /\ [][BuilderNext]_vars

(***************************************************************************)
(* Search specification: one call of comprehensive_search on any of the    *)
(* requests and databases of the model.                                    *)
(***************************************************************************)
Init ==
    /\ pc = "start"
    /\ request \in Requests
    /\ db \in Databases
    /\ search_args = SearchArgumentsNew
    /\ ids = [outer |-> << >>, inner |-> << >>]
    /\ calls = << >>
    /\ included = IncludedNew
    /\ result = BundleNew
    /\ bundle = BundleNew
    /\ fargs = SearchArgumentsNew.formatting_args
    /\ raised = "none"
    /\ op = NoOp
    /\ pre = BundleNew
    /\ BuilderIdle

Next == Parse \/ RevOuter \/ RevInner \/ Primary \/ IncludeLookup \/ IncludeAppend

Spec == Init /\ [][Next]_vars

(***************************************************************************)
(* comprehensive_search on an index larger than the default page           *)
(***************************************************************************)
MaxBeyond == 1      \* Observation documents beyond the default page size

\* DefaultResultSize Observations of Patient/p1, then MaxBeyond Observations
\* of the patient of late
PageObservations(late) ==
    [i \in 1..(DefaultResultSize + MaxBeyond) |->
        WithId([code |-> "c1", status |-> "s1",
                subject |-> Reference(IF i <= DefaultResultSize
                                      THEN "Patient/p1" ELSE late)],
               DocId("o", i))]

PageDatabases ==
    {[i \in {"fhirstore.patient", "fhirstore.observation", "fhirstore.encounter"} |->
        CASE i = "fhirstore.patient" -> Patients
          [] i = "fhirstore.observation" -> PageObservations(late)
          [] OTHER -> Numbered(enc, "e")] :
        late \in {"Patient/p1", "Patient/p2", "Patient/p3"},
        enc \in SeqsUpTo(EncounterBodies, MaxEnc)}

PageRequests ==
    {Request("Patient", <<Item(HasObs, <<"c1">>)>>),
     Request("Patient", <<Item(HasObs, <<"c1">>), Item(HasEnc, <<"s1">>)>>),
     Request("Observation", <<Item("_include", <<"Observation:subject">>)>>)}

PageInit ==
    /\ pc = "start"
    /\ request \in PageRequests
    /\ db \in PageDatabases
    /\ search_args = SearchArgumentsNew
    /\ ids = [outer |-> << >>, inner |-> << >>]
    /\ calls = << >>
    /\ included = IncludedNew
    /\ result = BundleNew
    /\ bundle = BundleNew
    /\ fargs = SearchArgumentsNew.formatting_args
    /\ raised = "none"
    /\ op = NoOp
    /\ pre = BundleNew
    /\ BuilderIdle

PageSpec == PageInit /\ [][Next]_vars

(***************************************************************************)
(* Properties of the envelope                                              *)
(***************************************************************************)
IsErrored(c) == c.resource_type = "OperationOutcome"

\* C6: entry-mode fill with a non-empty engine response appends one
\* match-mode entry per hit, in engine order, and adds the engine-reported
\* total (hits.total.value) to total, not the number of hits on the page.
C6_FillEntryMode ==
    (op.name = "fill" /\ ~fargs.is_summary_count /\ op.hits.kind = "search"
        /\ ~IsErrored(pre))
    => /\ raised = "none"
       /\ bundle.entry = pre.entry \o Entries(op.hits.hits, "match")
       /\ bundle.total = pre.total + op.hits.total
       /\ Has(bundle, "total") /\ Has(bundle, "entry")

C6_Witness ==
    /\ op.name = "fill" /\ ~fargs.is_summary_count /\ op.hits.kind = "search"
    /\ Len(op.hits.hits) > 0 /\ Len(pre.entry) > 0
    /\ bundle.total > Len(bundle.entry)

\* C7: count-mode fill adds only the engine count to total and leaves the
\* envelope without entry list; a later complete or append with the same
\* formatting arguments never brings an entry list back.
C7_CountMode ==
    fargs.is_summary_count =>
        /\ op.name = "fill" => ~Has(bundle, "entry") /\ bundle.entry = << >>
        /\ (op.name = "fill" /\ raised = "none") =>
              /\ bundle.total = pre.total + op.hits.count
              /\ bundle.keys = (pre.keys \cup {"tag"}) \ {"entry"}
              /\ bundle.resource_type = pre.resource_type /\ bundle.issue = pre.issue
        /\ (op.name \in {"complete", "append"} /\ ~Has(pre, "entry")) =>
              ~Has(bundle, "entry") /\ bundle.entry = << >>

C7_Witness ==
    /\ fargs.is_summary_count /\ Truthy(fargs.include)
    /\ op.name = "append" /\ op.hits.kind = "search" /\ Len(op.hits.hits) > 0
    /\ ~IsErrored(pre) /\ ~Has(pre, "entry") /\ pre.total > 0

\* C8: append never changes total; with include set it appends one
\* include-mode entry per hit after the existing entries; with include unset
\* it changes nothing, whatever hits are passed.
C8_Append ==
    op.name = "append" =>
        /\ bundle.total = pre.total
        /\ Has(bundle, "total") = Has(pre, "total")
        /\ ~Truthy(fargs.include) => (bundle = pre /\ raised = "none")
        /\ (Truthy(fargs.include) /\ op.hits.kind = "search" /\ Has(pre, "entry")) =>
              /\ raised = "none"
              /\ bundle.entry = pre.entry \o Entries(op.hits.hits, "include")
        /\ (Truthy(fargs.include) /\ op.hits.kind # "search") => bundle = pre

C8_Witness ==
    /\ op.name = "append" /\ Truthy(fargs.include) /\ op.hits.kind = "search"
    /\ Len(op.hits.hits) > 0 /\ Len(pre.entry) > 0 /\ pre.total > 0
    /\ Len(bundle.entry) = Len(pre.entry) + Len(op.hits.hits)

C8_WitnessNoInclude ==
    /\ op.name = "append" /\ ~Truthy(fargs.include) /\ op.hits.kind = "search"
    /\ Len(op.hits.hits) > 0

\* C9: fill_error turns any envelope into an OperationOutcome without
\* total, entry or tag, and no later fill, complete or append brings back a
\* Bundle resourceType, a total, an entry list or a tag.
C9_FillErrorAbsorbing ==
    /\ op.name = "fill_error" => IsErrored(bundle)
    /\ IsErrored(pre) => IsErrored(bundle)
    /\ IsErrored(bundle) => bundle.keys \cap {"total", "entry", "tag"} = {}

\* C10: complete on two filled envelopes sums the totals and, unless
\* count-mode, concatenates the receiver's entries with the other's entries
\* in their original order; in count-mode only total changes.
C10_Complete ==
    (op.name = "complete" /\ ~IsErrored(pre) /\ ~IsErrored(op.other)) =>
        /\ raised = "none"
        /\ bundle.total = pre.total + op.other.total
        /\ ~fargs.is_summary_count => bundle.entry = pre.entry \o op.other.entry
        /\ bundle = [pre EXCEPT !.total = bundle.total, !.entry = bundle.entry]
        /\ fargs.is_summary_count => bundle.entry = pre.entry

C10_Witness ==
    /\ op.name = "complete" /\ ~IsErrored(pre) /\ ~IsErrored(op.other)
    /\ ~fargs.is_summary_count
    /\ Len(pre.entry) > 0 /\ Len(op.other.entry) > 0
    /\ pre.entry[1] # op.other.entry[1]
    /\ pre.total > 0 /\ op.other.total > 0

C10_WitnessCount ==
    /\ op.name = "complete" /\ fargs.is_summary_count
    /\ ~IsErrored(pre) /\ ~Has(pre, "entry") /\ pre.total > 0 /\ op.other.total > 0

(***************************************************************************)
(* Properties of comprehensive_search                                      *)
(***************************************************************************)
Range(seq) == {seq[i] : i \in 1..Len(seq)}
ModeEntries(c, mode) == SelectSeq(c.entry, LAMBDA e : e.mode = mode)
EntryIds(c, mode) == {e.resource.id : e \in Range(ModeEntries(c, mode))}
IsNoMatch(c) ==
    /\ c.resource_type = "OperationOutcome" /\ c.issue.severity = "warning"
    /\ c.keys \cap {"total", "entry"} = {}
OneHop == request = Request("Patient", <<Item(HasObs, <<"c1">>)>>)
Chain == search_args.reverse_chain

\* the patients referenced through subject by an Observation with code c1
ReferencedPatients ==
    {p.id : p \in {q \in Range(db["fhirstore.patient"]) :
        \E o \in Range(db["fhirstore.observation"]) :
            /\ o.code = "c1" /\ "subject" \in DOMAIN o
            /\ o.subject.reference = "Patient/" \o q.id}}

\* C1: for a one-hop reverse chain the result holds exactly the resources
\* referenced by at least one matching referrer (the collected ids restrict
\* the id to ANY of them), for every number of matching referrers.
C1_ReverseChainExact ==
    (OneHop /\ pc = "done") => EntryIds(result, "match") = ReferencedPatients

\* C2: if any stage of the reverse-chain resolution yields zero ids, the
\* no-match envelope is returned and no further engine query is issued.
C2_EmptyStageShortCircuits ==
    /\ (Chain.is_queried /\ Len(Chain.has_args) = 2 /\ pc \notin {"start", "outer"}
            /\ ids.outer = << >>)
        => /\ Len(calls) <= 1
           /\ pc = "done" => IsNoMatch(result)
    /\ (Chain.is_queried /\ pc \notin {"start", "outer", "inner", "raised"}
            /\ ids.inner = << >>)
        => /\ pc = "done" /\ IsNoMatch(result)
           /\ \A i \in 1..Len(calls) : calls[i].index # IndexName(request.resource_type)

\* C3: a nested _has key is parsed and formatted without error into two
\* sub-query argument sets and resolved in the order R2 by {field: v}
\* projecting refAttr2, then R1 by {refAttr1: ids of R2}, then T by the ids
\* of R1.
C3_NestedChainResolves ==
    request = Request("Patient", <<Item(HasNested, <<"s1">>)>>) =>
        /\ raised \notin {"IndexError", "KeyError"}
        /\ pc # "start" =>
              /\ Len(Chain.has_args) = 2
              /\ Chain.resources_type = <<"Observation", "AuditEvent">>
              /\ Chain.references = <<"subject", "entity">>
        /\ Len(calls) >= 1 =>
              /\ calls[1].index = IndexName("AuditEvent")
              /\ calls[1].query = build_core_query(<<Item("type", <<"s1">>)>>)
              /\ calls[1].source = <<"entity.reference">>
        /\ Len(calls) >= 2 =>
              /\ calls[2].index = IndexName("Observation")
              /\ calls[2].query = build_core_query(<<Item("subject", ids.outer)>>)
        /\ Len(calls) >= 3 => calls[3].index = IndexName("Patient")

\* the ids of the Patient documents referenced by the subject of a match entry
IncludedPatients(c) ==
    {p.id : p \in {q \in Range(db["fhirstore.patient"]) :
        \E e \in Range(ModeEntries(c, "match")) :
            /\ "subject" \in DOMAIN e.resource
            /\ e.resource.subject.reference = "Patient/" \o q.id}}

IncludeRequest ==
    /\ request.resource_type = "Observation"
    /\ Truthy(search_args.formatting_args.include)
    /\ ~search_args.formatting_args.is_summary_count

\* C4: with _include, every reference of every match entry adds the
\* referenced resource as an include entry, one per distinct referenced id.
C4_IncludeEveryReference ==
    (IncludeRequest /\ pc = "done") =>
        /\ EntryIds(result, "include") = IncludedPatients(result)
        /\ Len(ModeEntries(result, "include")) = Cardinality(IncludedPatients(result))

\* C5: a search on a resource type unknown to the store never raises: it
\* returns an OperationOutcome with the issue 'unsupported FHIR resource'
\* and neither total nor entries.
C5_UnknownTypeEnvelope ==
    request.resource_type \notin Supported =>
        /\ pc # "raised" /\ raised = "none"
        /\ pc = "done" =>
              /\ result.resource_type = "OperationOutcome"
              /\ result.keys \cap {"total", "entry"} = {}

(***************************************************************************)
(* Properties of the argument parser                                       *)
(***************************************************************************)
HasComma(value) == Len(CommaSplit(value)) > 1
PlainValues(vals) == SelectSeq(vals, LAMBDA v : ~HasComma(v))

\* C11: pre_process_params loses no supplied constraint: every value with a
\* comma is registered in the "multiple" bucket under its key with its
\* comma-split values, and the values without a comma are appended in order
\* to the list of their key, also when several keys carry comma-separated
\* values.
C11_NoConstraintLost ==
    pc \in {"processed", "parsed"} =>
        \A i \in 1..Len(request.args) :
            LET e == request.args[i]
            IN  /\ \A j \in 1..Len(e.vals) :
                       HasComma(e.vals[j]) =>
                           /\ MultiHas(params, e.key)
                           /\ DictGet(params, "multiple") = CommaSplit(e.vals[j])
                /\ PlainValues(e.vals) # << >> =>
                       /\ DictHas(params, e.key)
                       /\ DictGet(params, e.key) = PlainValues(e.vals)

Reserved == {"_sort", "_include", "_revinclude", "_count", "_summary", "_elements"}

\* the fields of a parameter map: its keys and the key of its "multiple" bucket
Fields(d) == {IF d[i].key = "multiple" THEN d[i].mkey ELSE d[i].key : i \in 1..Len(d)}

\* C12: after SearchArguments.parse, core_args holds no reserved directive
\* and no _has: key, at top level or in the "multiple" bucket, and holds
\* every field of the request that is not reserved.
C12_CoreArgsClean ==
    (pc = "parsed" /\ raised = "none") =>
        /\ Fields(search_args.core_args) \cap Reserved = {}
        /\ \A k \in Fields(search_args.core_args) : ~StartsWithHas(k)
        /\ \A k \in Fields(request.args) :
               (k \notin Reserved /\ ~StartsWithHas(k))
                   => k \in Fields(search_args.core_args)

RECURSIVE FlatValues(_)
\* the values supplied for one key, comma-separated values split
FlatValues(vals) ==
    IF vals = << >> THEN << >> ELSE CommaSplit(Head(vals)) \o FlatValues(Tail(vals))

\* the values the request supplies for a key, none when the key is absent
Supplied(key) ==
    IF DictHas(request.args, key) THEN FlatValues(DictGet(request.args, key)) ELSE None

\* ResourceType:searchParam or ResourceType:searchParam:TargetType
WellFormedInclude(value) == Len(ColonSplit(value)) \in {2, 3}

\* C17: for every _include value ResourceType:searchParam[:TargetType],
\* single, comma-separated or repeated, the include directive holds the
\* searchParam segment of each supplied value, in order.
C17_IncludeSearchParam ==
    (/\ pc = "parsed"
     /\ DictHas(request.args, "_include")
     /\ \A i \in 1..Len(Supplied("_include")) :
            WellFormedInclude(Supplied("_include")[i])) =>
        /\ raised = "none"
        /\ search_args.formatting_args.include =
              [i \in 1..Len(Supplied("_include")) |->
                  ColonSplit(Supplied("_include")[i])[2]]

\* the sort entry the claim gives for one _sort argument
C19_Entry(argument) ==
    CASE argument = "-code" -> [field |-> "code", order |-> "desc"]
      [] argument = "-_score" -> [field |-> "_score", order |-> "asc"]
      [] OTHER -> [field |-> argument, order |-> "default"]

\* C19: for every request with _sort the sort directive has one element per
\* comma-separated entry, in order: -f gives f descending, -_score gives
\* _score ascending, an entry without minus is passed unchanged; without
\* _sort the directive is none.
C19_SortDirective ==
    (pc = "parsed" /\ raised = "none") =>
        search_args.formatting_args.sort =
            IF DictHas(request.args, "_sort")
            THEN [i \in 1..Len(Supplied("_sort")) |-> C19_Entry(Supplied("_sort")[i])]
            ELSE None

\* the _summary value of the request, "" without _summary
SummaryOf == IF DictHas(request.args, "_summary") THEN Supplied("_summary")[1] ELSE ""

\* C20: _summary=count sets count-only mode; text forces elements to
\* [text, id, meta] whatever _elements says; false leaves the summary flag
\* false, the elements as given by _elements and the mode not count-only;
\* without _summary, elements is the comma-split _elements list or none.
C20_SummaryModes ==
    (pc = "parsed" /\ raised = "none") =>
        LET fa == search_args.formatting_args
        IN  /\ SummaryOf = "count" => fa.is_summary_count
            /\ SummaryOf = "text" => fa.elements = <<"text", "id", "meta">>
            /\ SummaryOf = "false" =>
                   /\ ~fa.summary /\ ~fa.is_summary_count
                   /\ fa.elements = Supplied("_elements")
            /\ SummaryOf = "" => fa.elements = Supplied("_elements")

(***************************************************************************)
(* Properties of the orchestrator on a malformed _include                  *)
(***************************************************************************)
\* C18: a malformed _include value is a parse-time error: the search returns
\* an OperationOutcome with one issue, no exception leaves the orchestrator
\* and no engine call is made.
C18_BadIncludeEnvelope ==
    (DictHas(request.args, "_include")
        /\ ~WellFormedInclude(DictGet(request.args, "_include")[1])) =>
        /\ pc # "raised" /\ raised = "none"
        /\ calls = << >>
        /\ pc = "done" =>
              /\ result.resource_type = "OperationOutcome"
              /\ result.issue # NoIssue

(***************************************************************************)
(* Properties of the core query builder                                    *)
(***************************************************************************)
Phrase(key, value) == SimpleQueryString(Quoted(value), <<key>>, "PHRASE")

\* the composition the claim gives for one key of a core-args map
C13_Simple(e) ==
    IF e.key = "multiple"
    THEN [kind |-> "bool", occur |-> "should",
          content |-> [j \in 1..Len(e.vals) |-> build_element_query(e.mkey, e.vals[j])]]
    ELSE IF Len(e.vals) > 1
    THEN [kind |-> "bool", occur |-> "must",
          content |-> [j \in 1..Len(e.vals) |-> build_element_query(e.key, e.vals[j])]]
    ELSE build_element_query(e.key, e.vals[1])

\* C13: build_core_query gives match_all for the empty map, the OR of the
\* compiled values for a "multiple" bucket, the AND of the compiled values in
\* order for a field with several values, the compiled value for a field
\* with one value (a phrase leaf for a plain string on a field without
\* modifier) and, for a map of several keys, the AND of the results of the
\* keys taken one by one.
C13_CoreComposition ==
    pc = "core" =>
        /\ params = << >> => built_query = MatchAll
        /\ Len(params) = 1 => built_query = C13_Simple(params[1])
        /\ Len(params) > 1 =>
               /\ built_query.kind = "bool" /\ built_query.occur = "must"
               /\ built_query.content = [i \in 1..Len(params) |-> C13_Simple(params[i])]
        /\ params = <<Item("name", <<"Duck">>)>> => built_query = Phrase("name", "Duck")

C13_Witness ==
    /\ pc = "core"
    /\ Len(params) = 2
    /\ params[1].key = "multiple" /\ Len(params[2].vals) = 2
    /\ built_query.kind = "bool" /\ built_query.occur = "must"
    /\ built_query.content[1].occur = "should"

\* a field without modifier that is not the _text/_content sentinel
OrdinaryField(key) == ~HasModifier(key) /\ key \notin {"_text", "_content"}

C14_WitnessLiteral ==
    /\ pc = "element"
    /\ ~element.number
    /\ element.key = "name"
    /\ element.value = "eqpatient"
    /\ built_query.kind = "simple_query_string"

\* C15: the first matching rule wins in the order numeric literal, ordering
\* prefix, modifier, pipe, sentinel, default: a value with an ordering prefix
\* and a numeric remainder compiles to the prefix leaf also on a field with
\* a modifier and on the _text sentinel.
C15_PrefixBeforeModifier ==
    pc = "element" =>
        /\ element.number => built_query = MatchLeaf(element.key, element.value)
        /\ (~element.number /\ element.value = "gt5") =>
               /\ built_query.kind = "range"
               /\ built_query.operator = "gt"
               /\ built_query.value = "5"

Narrows(fa) == fa.is_summary_count \/ Truthy(fa.elements) \/ fa.summary

\* C21: after fill the envelope carries the tag SUBSETTED if and only if
\* the request is count-only, has an elements allow-list or has a summary
\* directive other than false.
C21_TagIffNarrowed ==
    (op.name = "fill" /\ raised = "none") => (Has(bundle, "tag") <=> Narrows(fargs))

C21_Witness ==
    /\ op.name = "fill" /\ raised = "none"
    /\ ~fargs.is_summary_count /\ ~fargs.summary /\ Truthy(fargs.elements)
    /\ op.hits.kind = "search" /\ Len(op.hits.hits) > 0
    /\ ~Has(pre, "tag") /\ Has(bundle, "tag")

C21_WitnessNoTag ==
    /\ op.name = "fill" /\ raised = "none"
    /\ ~Narrows(fargs)
    /\ op.hits.kind = "search" /\ Len(op.hits.hits) > 0
    /\ ~Has(bundle, "tag")

(***************************************************************************)
(* Properties of comprehensive_search, continued                           *)
(***************************************************************************)
\* the documents of the target index that match the core arguments
MatchCount ==
    Len(SelectSeq(db[IndexName(request.resource_type)],
                  LAMBDA d : Matches(d, build_core_query(search_args.core_args))))

\* C22: _count=0 is treated as _summary=count: the parsed arguments are in
\* count-only mode and the envelope has the engine's match count as total
\* and no entries; any other _count=n gives page size n, and the page size
\* is 100 without _count.
C22_CountZeroIsCountOnly ==
    pc = "done" =>
        IF ~DictHas(request.args, "_count")
        THEN search_args.meta_args.result_size = 100
        ELSE IF DictGet(request.args, "_count") = <<"0">>
        THEN /\ search_args.formatting_args.is_summary_count
             /\ calls[Len(calls)].api = "count"
             /\ result.total = MatchCount
             /\ ~Has(result, "entry") \/ result.entry = << >>
        ELSE search_args.meta_args.result_size = IntOf(DictGet(request.args, "_count")[1])

\* the parts of C22 that the program has
C22_PageSize ==
    pc = "done" =>
        IF ~DictHas(request.args, "_count")
        THEN search_args.meta_args.result_size = 100
        ELSE /\ search_args.meta_args.result_size = IntOf(DictGet(request.args, "_count")[1])
             /\ result.total = MatchCount
             /\ Len(result.entry) = Min(MatchCount, search_args.meta_args.result_size)

\* the hits of the primary query, in the order the engine returns them
PrimaryHits ==
    EsSearch(db, IndexName(search_args.resource_type), SearchCall(search_args)).c.hits

\* the (field, entry) positions whose include lookup returns the resource
IncludeSources(resource) ==
    LET include == search_args.formatting_args.include
    IN  {ji \in (1..Len(include)) \X (1..Len(PrimaryHits)) :
            /\ include[ji[1]] \in DOMAIN PrimaryHits[ji[2]]
            /\ \E found \in {EsSearch(db,
                        IncludeCall(PrimaryHits[ji[2]][include[ji[1]]].reference).index,
                        IncludeCall(PrimaryHits[ji[2]][include[ji[1]]].reference))} :
                    /\ found.exc = "none"
                    /\ \E h \in 1..Len(found.c.hits) : found.c.hits[h] = resource}

\* field declaration order, then encounter order within a field
FieldMajor(a, b) == a[1] < b[1] \/ (a[1] = b[1] /\ a[2] <= b[2])

\* a search with _include that is not count-only has returned
IncludeDone ==
    /\ pc = "done"
    /\ Truthy(search_args.formatting_args.include)
    /\ ~search_args.formatting_args.is_summary_count

IncludePositions ==
    (1..Len(search_args.formatting_args.include)) \X (1..Len(PrimaryHits))

\* the response of the lookup at a position; KeyError when the entry lacks
\* the attribute
LookupAt(ji) ==
    LET attribute == search_args.formatting_args.include[ji[1]]
        resource == PrimaryHits[ji[2]]
    IN  IF attribute \notin DOMAIN resource THEN Raise(EmptyHits, "KeyError")
        ELSE EsSearch(db, IncludeCall(resource[attribute].reference).index,
                      IncludeCall(resource[attribute].reference))

\* the resources returned by the lookups that succeeded
SucceededInclusions ==
    UNION {Range(LookupAt(ji).c.hits) : ji \in {p \in IncludePositions : LookupAt(p).exc = "none"}}

\* a search with _include that is not count-only has ended and one of its
\* lookups failed
IncludeFailedAt(ji) ==
    /\ pc \in {"done", "raised"}
    /\ Truthy(search_args.formatting_args.include)
    /\ ~search_args.formatting_args.is_summary_count
    /\ ji \in IncludePositions
    /\ LookupAt(ji).exc # "none"

\* C24: a failure confined to one include expansion does not fail the
\* call: a Bundle is returned whose match entries and total are those of
\* the primary query, the failing inclusion is skipped and the inclusions
\* that succeeded for other entries or fields are appended.
C24_IncludeFailureIsolated ==
    \A ji \in (1..2) \X (1..MaxObs) :
        IncludeFailedAt(ji) =>
            LET n == Len(PrimaryHits)
            IN  /\ pc = "done" /\ raised = "none"
                /\ result.resource_type = "Bundle"
                /\ result.total = MatchCount
                /\ Len(result.entry) >= n
                /\ \A i \in 1..n : result.entry[i] = [resource |-> PrimaryHits[i], mode |-> "match"]
                /\ {result.entry[i].resource : i \in (n + 1)..Len(result.entry)}
                        = SucceededInclusions

\* the part of C24 that the program has: the call returns the primary
\* result, and what it appends comes from a lookup that succeeded
C24_CallSurvives ==
    \A ji \in (1..2) \X (1..MaxObs) :
        IncludeFailedAt(ji) =>
            LET n == Len(PrimaryHits)
            IN  /\ pc = "done" /\ raised = "none"
                /\ result.resource_type = "Bundle"
                /\ result.total = MatchCount
                /\ Len(result.entry) >= n
                /\ \A i \in 1..n : result.entry[i] = [resource |-> PrimaryHits[i], mode |-> "match"]
                /\ {result.entry[i].resource : i \in (n + 1)..Len(result.entry)}
                        \subseteq SucceededInclusions

\* the stages of comprehensive_search in the order of the code
Stage(p) ==
    CASE p = "start" -> 0 [] p = "outer" -> 1 [] p = "inner" -> 2
      [] p = "primary" -> 3 [] p = "include" -> 4 [] OTHER -> 5

\* the engine calls issued by the step
Issued == SubSeq(calls', Len(calls) + 1, Len(calls'))

IsChainCall(c, hop) ==
    /\ c.api = "search"
    /\ c.index = IndexName(search_args.reverse_chain.resources_type[hop])

IsPrimaryCall(c) ==
    /\ c.index = IndexName(search_args.resource_type)
    /\ IF search_args.formatting_args.is_summary_count
       THEN c.api = "count"
       ELSE /\ c.api = "search"
            /\ c.from = search_args.meta_args.offset
            /\ c.size = search_args.meta_args.result_size

IsIncludeLookup(c) ==
    /\ c.api = "search"
    /\ c.query.kind = "simple_query_string"
    /\ c.query.fields = <<"id">>

C25_Step ==
    /\ Stage(pc') >= Stage(pc)
    /\ Len(calls') >= Len(calls)
    /\ calls' = calls \o Issued
    /\ Len(Issued) <= 1
    /\ CASE pc = "outer" -> \A k \in 1..Len(Issued) : IsChainCall(Issued[k], 2)
         [] pc = "inner" -> \A k \in 1..Len(Issued) : IsChainCall(Issued[k], 1)
         [] pc = "primary" ->
                /\ \A k \in 1..Len(Issued) : IsPrimaryCall(Issued[k])
                /\ pc' # "raised" => Len(Issued) = 1
         [] pc = "include" ->
                Issued # << >> =>
                    /\ IsIncludeLookup(Issued[1])
                    /\ Truthy(search_args.formatting_args.include)
                    /\ ~search_args.formatting_args.is_summary_count
                    /\ bundle.entry[included.i].mode = "match"
         [] OTHER -> Issued = << >>

\* C25: the engine round trips of a call happen in this order: the
\* reverse-chain sub-queries, then the one primary call (a count call if
\* and only if count-only, otherwise a search carrying from=offset and
\* size=result_size), then the include lookups; no include lookup is issued
\* when the search is count-only or _include is unset, nor for an entry in
\* include mode.
C25_RoundTripOrder == [][C25_Step]_vars

C25_Witness ==
    /\ pc = "done"
    /\ Len(calls) = 3
    /\ search_args.reverse_chain.is_queried
    /\ IsChainCall(calls[1], 2) /\ IsChainCall(calls[2], 1) /\ IsPrimaryCall(calls[3])

C25_WitnessInclude ==
    /\ pc = "done"
    /\ Len(calls) = 3
    /\ search_args.meta_args.result_size = DefaultResultSize
    /\ IsPrimaryCall(calls[1]) /\ IsIncludeLookup(calls[2]) /\ IsIncludeLookup(calls[3])

(***************************************************************************)
(* Properties of the reverse chain                                         *)
(***************************************************************************)
\* C26: after parse of any parameter map, whatever the number of _has keys
\* and their nesting, a queried reverse chain has at most two hops and its
\* lists of resource types, reference attributes and target fields have
\* the same length, 1 or 2.
C26_ChainWellFormed ==
    (pc = "parsed" /\ raised = "none" /\ search_args.reverse_chain.is_queried) =>
        LET rc == search_args.reverse_chain
        IN  /\ Len(rc.resources_type) \in {1, 2}
            /\ Len(rc.references) = Len(rc.resources_type)
            /\ Len(rc.fields) = Len(rc.resources_type)

\* the part of C26 that the program has: one or two keys of one hop each
C26_PlainKeys ==
    (/\ pc = "parsed" /\ raised = "none" /\ search_args.reverse_chain.is_queried
     /\ ~DictHas(request.args, HasNested)) =>
        LET rc == search_args.reverse_chain
        IN  /\ Len(rc.resources_type) \in {1, 2}
            /\ Len(rc.references) = Len(rc.resources_type)
            /\ Len(rc.fields) = Len(rc.resources_type)

(***************************************************************************)
(* Properties of build_element_query, continued                            *)
(***************************************************************************)
LeafKinds == {"match", "range", "query_string", "simple_query_string", "bool"}

\* C27: build_element_query is total and single-kinded on string input:
\* for every field name, the fields ending in a modifier of its pattern
\* included, and every string value, values with two or more "|" included,
\* it returns without raising a query of exactly one leaf kind (match,
\* range, query_string, simple_query_string or bool), never an empty query.
C27_TotalSingleKinded ==
    (pc = "element" /\ ~element.number) =>
        /\ raised = "none"
        /\ built_query.kind \in LeafKinds

\* the inputs on which C27 does not hold
C27_Partial ==
    (pc = "element" /\ ~element.number) =>
        IF element.key \notin {"_text", "_content"} /\ HasModifier(element.key)
        THEN raised = "none"
             /\ (built_query.kind \in LeafKinds <=> ColonSplit(element.key)[2] # "above")
        ELSE IF /\ element.key \notin {"_text", "_content"}
                /\ check_prefix(element.value).prefix = ""
                /\ Len(PipeSplit(element.value)) > 2
        THEN raised = "ValueError"
        ELSE raised = "none" /\ built_query.kind \in LeafKinds

(***************************************************************************)
(* Properties of comprehensive_search: the target type                     *)
(***************************************************************************)
\* C28: no engine call is issued for a request whose target resource type
\* is not supported: the type is rejected before any reverse-chain
\* sub-query, primary query or include lookup, also when the request
\* carries a _has parameter.
C28_NoCallForUnknownType ==
    request.resource_type \notin Supported => calls = << >>

\* the part of C28 that the program has: no primary query and no include
\* lookup is issued, and no Bundle is returned
C28_NoPrimaryCall ==
    request.resource_type \notin Supported =>
        /\ \A k \in 1..Len(calls) : calls[k].index # IndexName(request.resource_type)
        /\ pc # "include"
        /\ pc = "done" => result.resource_type = "OperationOutcome"

(***************************************************************************)
(* Properties of successive fills                                          *)
(***************************************************************************)
\* the engine response has the shape of the mode of the request
ShapedHits(hits, fa) ==
    hits.kind \in {"empty", IF fa.is_summary_count THEN "count" ELSE "search"}

\* what the response adds to total
Reported(hits) == IF hits.kind = "count" THEN hits.count ELSE hits.total

\* C29: successive fills of one envelope with the same formatting
\* arguments accumulate and never fail: total grows by the engine total (or
\* count) of every fill and, in entry mode, the entries are the hits of all
\* fills in call order; in count mode as well as in entry mode.
C29_FillsAccumulate ==
    (op.name = "fill" /\ ~IsErrored(pre) /\ ShapedHits(op.hits, fargs)) =>
        /\ raised = "none"
        /\ bundle.total = pre.total + Reported(op.hits)
        /\ ~fargs.is_summary_count =>
                bundle.entry = pre.entry \o Entries(op.hits.hits, "match")

\* the part of C29 that the program has: entry mode, and the first fill of
\* count mode
C29_EntryModeOrFirst ==
    (/\ op.name = "fill" /\ ~IsErrored(pre) /\ ShapedHits(op.hits, fargs)
     /\ fargs.is_summary_count => Has(pre, "entry")) =>
        /\ raised = "none"
        /\ bundle.total = pre.total + Reported(op.hits)
        /\ ~fargs.is_summary_count =>
                bundle.entry = pre.entry \o Entries(op.hits.hits, "match")

(***************************************************************************)
(* Properties of the reverse chain on a large index                        *)
(***************************************************************************)
\* C30: reverse-chain resolution collects the referenced ids of every
\* resource that matches the sub-query, not only of the first result page:
\* with more matches than the default page size of 100, the ids referenced
\* by the matches beyond the first 100 are part of the id restriction of
\* the next query.
C30_EveryPageCollected ==
    (OneHop /\ pc \in {"primary", "done"}) =>
        /\ ReferencedPatients \subseteq Range(ids.inner)
        /\ pc = "primary" =>
                ReferencedPatients \subseteq Range(DictGet(search_args.core_args, "id"))

\* the part of C30 that the program has: the ids of the first page
C30_FirstPageCollected ==
    (OneHop /\ pc \in {"primary", "done"}) =>
        LET matching == SelectSeq(db["fhirstore.observation"], LAMBDA o : o.code = "c1")
        IN  ids.inner = [i \in 1..Min(Len(matching), DefaultResultSize) |->
                            SlashSplit(matching[i].subject.reference)[2]]
====
